---- MODULE Spec2Model ----
(***************************************************************************)
(* Model of the Formula-1 ingestion pipeline:                              *)
(*   - OpenF1Client.fetch        (src/ingestion/client.py)                 *)
(*   - SessionManager            (src/ingestion/session_manager.py)        *)
(*   - process_session / main    (src/ingestion/ingest.py)                 *)
(*   - merge_data, interpolate_missing, process_features                   *)
(*                               (src/ingestion/processor.py)              *)
(*   - calculate_tire_age_adjusted, calculate_interval_delta               *)
(*                               (src/ingestion/cleaning.py)               *)
(*   - calculate_tire_life_probability    (strategy_processor.py)          *)
(* The specifications of the module: SpecClient (a harness driving         *)
(* concurrent fetch calls against a scripted server), SpecIngest (the      *)
(* coordinator with crashes and restarts), SpecLive (one run of either     *)
(* under fairness), SpecLocator (the session manager on bounded session    *)
(* lists), SpecMerge and SpecPipeline (merge_data and process_features on  *)
(* bounded input tables) and SpecFeatures (the feature functions on        *)
(* bounded input tables).                                                  *)
(***************************************************************************)
EXTENDS Integers, Sequences, FiniteSets, TLC

VARIABLES
    \* ---- OpenF1Client -------------------------------------------------
    limit,      \* concurrency_limit the client was built with
    sem,        \* value of asyncio.Semaphore (free slots)
    pc,         \* per call: "idle", "wait", "inflight", "backoff", "done"
    attempt,    \* per call: tenacity attempt_number of the current attempt
    issued,     \* per call: HTTP requests issued so far
    script,     \* per call: what the remote answers ("any" = unconstrained)
    outcome,    \* per call: what fetch returned or raised
    delay,      \* per call: the sleep chosen before the next attempt
    \* ---- process_session ----------------------------------------------
    ipc,        \* control location of main/process_session
    mem,        \* state[session_str] held in memory
    disk,       \* the session's entry of ingestion_state.json
    lapsFile,   \* laps_<session>.parquet exists
    weatherFile,\* weather_<session>.parquet exists
    carFiles,   \* drivers d whose car_<session>_<d>.parquet exists
    lapsDf,     \* laps_df is non-empty
    task,       \* per driver: state of fetch_and_save_driver(d)
    runs,       \* number of invocations of main so far
    startComplete, \* the run began with everything marked done and stored
    diskChanged,\* a save_state of this run changed the document
    fetchCalls, \* client.fetch calls made by process_session in this run
    wrote,      \* an artifact was (re)written in this run
    sessions,   \* what the sessions fetch of this run returned ("none" before)
    driverWrites, \* save_state calls of this run that followed the gather
    \* ---- merge_data ---------------------------------------------------
    mpc,        \* "input", then "merged" after merge_data, "featured" after
                \* process_features
    car_df, laps_df, weather_df, merged_df,
    features_df, \* the table process_features returns
    \* ---- feature functions --------------------------------------------
    fpc,        \* "idle", or the function under test with "_input" before
                \* and "_done" after its call: "age", "life", "fill", "delta"
    given_df,   \* the table the function under test was called with, as it
                \* was before the call
    age_df,     \* the caller's table given to calculate_tire_age_adjusted,
                \* which assigns its columns in place
    aged_df,    \* the table it returns
    stint_laps, \* the laps table given to calculate_tire_life_probability
    flagged_laps, \* its laps table once sorted and given the is_failure column
    survival_data, \* the rows it returns
    telemetry_df, \* the caller's table given to interpolate_missing, which
                \* fills it in place
    filled_df,  \* the table it returns
    gap_df,     \* the caller's table given to calculate_interval_delta, which
                \* assigns its columns in place
    delta_df,   \* the table it returns
    \* ---- SessionManager ----------------------------------------------
    lpc,        \* "idle", "input", "listed", "located"
    remote_sessions, \* the sessions the remote has, of every year
    want_year,  \* the year the caller wants the session of
    want_type,  \* the session-type label the caller wants, or "None"
    listed,     \* what get_sessions returned
    located     \* what get_latest_session_key returned

clientVars == <<limit, sem, pc, attempt, issued, script, outcome, delay>>
ingestVars == <<ipc, mem, disk, lapsFile, weatherFile, carFiles, lapsDf, task,
                runs, startComplete, diskChanged, fetchCalls, wrote,
                sessions, driverWrites>>
mergeVars  == <<mpc, car_df, laps_df, weather_df, merged_df, features_df>>
channelVars == <<telemetry_df, filled_df, gap_df, delta_df>>
featureVars == <<fpc, given_df, age_df, aged_df, stint_laps, flagged_laps, survival_data,
                 channelVars>>
locatorVars == <<lpc, remote_sessions, want_year, want_type, listed, located>>
vars == <<clientVars, ingestVars, mergeVars, featureVars, locatorVars>>

(***************************************************************************)
(* Bounds of the model and constants of the program.                       *)
(***************************************************************************)
NumCalls == 2            \* calls the client harness may start
MaxGate == 2             \* largest gate size the harness builds a client with
NumDrivers == 2          \* distinct driver_number values in the laps table
MaxRuns == 2             \* invocations of main
MaxCarRows == 2          \* rows of car_df
MaxRefRows == 2          \* rows of laps_df and weather_df together
MaxAgeRows == 3          \* rows of the table given to calculate_tire_age_adjusted
MaxLifeRows == 3         \* rows of the table given to calculate_tire_life_probability
MaxStintLaps == 5         \* laps of the one-stint table given to it
MaxSessions == 2         \* sessions the remote has
MaxChannelRows == 4      \* rows of the tables given to interpolate_missing and
                         \* calculate_interval_delta

MaxAttempts == 5         \* stop_after_attempt(5)
WaitMultiplier == 1      \* wait_exponential(multiplier=1, ...)
WaitMin == 2             \* wait_exponential(min=2)
WaitMax == 10            \* wait_exponential(max=10)
MainConcurrencyLimit == 5 \* OpenF1Client(concurrency_limit=5) in main

Max2(a, b) == IF a >= b THEN a ELSE b
Min2(a, b) == IF a <= b THEN a ELSE b

Drivers == 1..NumDrivers
LapsCall == NumDrivers + 1
WeatherCall == NumDrivers + 2
SessionsCall == NumDrivers + 3
CallIds == 1..Max2(NumCalls, NumDrivers + 3)
HarnessCalls == 1..NumCalls

(***************************************************************************)
(* The remote service.  A response is identified by a tag; Status,         *)
(* ContentType and Body give what the client reads from it.                *)
(***************************************************************************)
Responses == {"rows", "empty", "badbody", "html", "s404", "s429", "s500"}

Status(r) ==
    CASE r = "s404" -> 404
      [] r = "s429" -> 429
      [] r = "s500" -> 500
      [] OTHER -> 200

ContentType(r) == IF r = "html" THEN "text/html" ELSE "application/json"

Body(r) == IF r \in {"rows", "empty", "badbody"} THEN r ELSE "text"

Scripts == {"any", "always429", "always404", "alwaysHtml"}

\* The responses a scripted server may give.
Allowed(s) ==
    CASE s = "always429" -> {"s429"}
      [] s = "always404" -> {"s404"}
      [] s = "alwaysHtml" -> {"html"}
      [] OTHER -> Responses

(***************************************************************************)
(* OpenF1Client.fetch: one attempt (the body of fetch) and the tenacity    *)
(* decorator around it.                                                    *)
(***************************************************************************)
\* The exception one attempt raises on response r ("none": it returns).
AttemptRaises(r) ==
    IF Status(r) = 429 THEN "ClientResponseError"
    ELSE IF Status(r) >= 500 THEN "ClientResponseError"
    ELSE IF Status(r) >= 400 THEN "ClientResponseError"
    ELSE IF ContentType(r) # "application/json" THEN "ContentTypeError"
    ELSE IF Body(r) = "badbody" THEN "JSONDecodeError"
    ELSE "none"

\* The status attribute of the exception raised on r: raise_for_status
\* copies the response status; the ContentTypeError built in fetch gets none.
RaisedStatus(r) == IF Status(r) >= 400 THEN Status(r) ELSE 0

\* aiohttp: class ContentTypeError(ClientResponseError).
IsSubclass(e, base) ==
    \/ e = base
    \/ e = "ContentTypeError" /\ base = "ClientResponseError"

\* retry=retry_if_exception_type(aiohttp.ClientResponseError)
RetryPredicate(e) == IsSubclass(e, "ClientResponseError")

StopAfterAttemptEarly(a) == a >= MaxAttempts - 1
StopAfterAttemptLate(a) == a >= MaxAttempts + 1
\* stop=stop_after_attempt(5)
StopAfterAttempt(a) == a >= MaxAttempts

RECURSIVE Pow2(_)
Pow2(n) == IF n <= 0 THEN 1 ELSE 2 * Pow2(n - 1)

WaitExponentialFromBase(a) ==
    Max2(Max2(0, WaitMin), Min2(WaitMultiplier * Pow2(a), WaitMax))
\* wait=wait_exponential(multiplier=1, min=2, max=10), after attempt a:
\* max(max(0, min), min(multiplier * 2 ** (attempt_number - 1), max))
WaitExponential(a) ==
    Max2(Max2(0, WaitMin), Min2(WaitMultiplier * Pow2(a - 1), WaitMax))

NoOutcome == [exc |-> "pending", cause |-> "none", status |-> 0, data |-> "none"]
Returned(body) == [exc |-> "none", cause |-> "none", status |-> 0, data |-> body]
Raised(e, st) == [exc |-> e, cause |-> "none", status |-> st, data |-> "none"]
\* tenacity without reraise: RetryError wrapping the last attempt
RetryError(e, st) == [exc |-> "RetryError", cause |-> e, status |-> st, data |-> "none"]

CanAcquireAlways(s) == TRUE
\* asyncio.Semaphore.acquire proceeds only while the value is positive
CanAcquire(s) == s > 0

ReleaseNever(s) == s
\* leaving `async with self.semaphore`, by return or by exception
Release(s) == s + 1

\* fetch(endpoint, params) is called: the first attempt reaches the gate.
StartCall(c, s) ==
    /\ pc[c] = "idle"
    /\ pc' = [pc EXCEPT ![c] = "wait"]
    /\ attempt' = [attempt EXCEPT ![c] = 1]
    /\ issued' = [issued EXCEPT ![c] = 0]
    /\ script' = [script EXCEPT ![c] = s]
    /\ outcome' = [outcome EXCEPT ![c] = NoOutcome]
    /\ delay' = [delay EXCEPT ![c] = 0]
    /\ UNCHANGED <<limit, sem>>

\* async with self.semaphore: ... self.session.get(url): the request is issued.
Acquire(c) ==
    /\ pc[c] = "wait"
    /\ CanAcquire(sem)
    /\ sem' = sem - 1
    /\ pc' = [pc EXCEPT ![c] = "inflight"]
    /\ issued' = [issued EXCEPT ![c] = @ + 1]
    /\ UNCHANGED <<limit, attempt, script, outcome, delay>>

\* What tenacity does with attempt number a once response r has arrived:
\* the call ends with a result or an exception, or it sleeps and retries.
AfterResponse(a, r) ==
    LET e == AttemptRaises(r) IN
      IF e = "none"
      THEN [pc |-> "done", outcome |-> Returned(Body(r)), delay |-> 0]
      ELSE IF ~RetryPredicate(e)
      THEN [pc |-> "done", outcome |-> Raised(e, RaisedStatus(r)), delay |-> 0]
      ELSE IF StopAfterAttempt(a)
      THEN [pc |-> "done", outcome |-> RetryError(e, RaisedStatus(r)), delay |-> 0]
      ELSE [pc |-> "backoff", outcome |-> NoOutcome, delay |-> WaitExponential(a)]

\* The response r arrives; the attempt returns or raises, the gate slot is
\* released on the way out, and tenacity decides between stop, retry and
\* propagation.
Respond(c, r) ==
    /\ pc[c] = "inflight"
    /\ r \in Allowed(script[c])
    /\ sem' = Release(sem)
    /\ LET res == AfterResponse(attempt[c], r) IN
         /\ pc' = [pc EXCEPT ![c] = res.pc]
         /\ outcome' = [outcome EXCEPT ![c] = res.outcome]
         /\ delay' = [delay EXCEPT ![c] = res.delay]
    /\ UNCHANGED <<limit, attempt, issued, script>>

\* The backoff sleep ends; the next attempt reaches the gate.
Wake(c) ==
    /\ pc[c] = "backoff"
    /\ pc' = [pc EXCEPT ![c] = "wait"]
    /\ attempt' = [attempt EXCEPT ![c] = @ + 1]
    /\ UNCHANGED <<limit, sem, issued, script, outcome, delay>>

InFlight == {c \in CallIds : pc[c] = "inflight"}

ClientInit(lim) ==
    /\ limit = lim
    /\ sem = lim
    /\ pc = [c \in CallIds |-> "idle"]
    /\ attempt = [c \in CallIds |-> 0]
    /\ issued = [c \in CallIds |-> 0]
    /\ script = [c \in CallIds |-> "any"]
    /\ outcome = [c \in CallIds |-> NoOutcome]
    /\ delay = [c \in CallIds |-> 0]


ClientReset ==
    /\ sem' = limit
    /\ pc' = [c \in CallIds |-> "idle"]
    /\ attempt' = [c \in CallIds |-> 0]
    /\ issued' = [c \in CallIds |-> 0]
    /\ script' = [c \in CallIds |-> "any"]
    /\ outcome' = [c \in CallIds |-> NoOutcome]
    /\ delay' = [c \in CallIds |-> 0]
    /\ UNCHANGED limit

(***************************************************************************)
(* The client harness: any call may be started, against any script.        *)
(***************************************************************************)
HarnessStart ==
    /\ \E c \in HarnessCalls, s \in Scripts : StartCall(c, s)
    /\ UNCHANGED <<ingestVars, mergeVars, featureVars, locatorVars>>

FetchAcquire ==
    /\ \E c \in CallIds : Acquire(c)
    /\ UNCHANGED <<ingestVars, mergeVars, featureVars, locatorVars>>

FetchRespond ==
    /\ \E c \in CallIds, r \in Responses : Respond(c, r)
    /\ UNCHANGED <<ingestVars, mergeVars, featureVars, locatorVars>>

FetchWake ==
    /\ \E c \in CallIds : Wake(c)
    /\ UNCHANGED <<ingestVars, mergeVars, featureVars, locatorVars>>

(***************************************************************************)
(* ingestion_state.json and the coordinator.                               *)
(***************************************************************************)
\* Python values: the int 44 and the str "44" are different values.
PyInt(d) == [t |-> "int", v |-> d]
PyStr(d) == [t |-> "str", v |-> d]

\* load_state() without an entry for the session (no file, {} or unreadable)
NoEntry == [has |-> FALSE, laps |-> FALSE, weather |-> FALSE, drivers |-> <<>>]
\* state[session_str] = {"laps": False, "weather": False, "drivers": []}
FreshEntry == [has |-> TRUE, laps |-> FALSE, weather |-> FALSE, drivers |-> <<>>]

Elems(seq) == {seq[i] : i \in DOMAIN seq}

RECURSIVE AscSeq(_)
\* The members of a set of integers in ascending order.
AscSeq(S) ==
    IF S = {} THEN <<>>
    ELSE LET m == CHOOSE x \in S : \A y \in S : x <= y
         IN <<m>> \o AscSeq(S \ {m})

\* logged_drivers = set(session_state.get("drivers", []))
LoggedDrivers(entry) == Elems(entry.drivers)

\* pending_drivers = [d for d in drivers if str(d) not in logged_drivers]
PendingDrivers(entry) == {d \in Drivers : PyStr(d) \notin LoggedDrivers(entry)}

ExtendDriversOverwrite(old, new) == new
\* session_state["drivers"].extend([int(x) for x in newly_fetched])
ExtendDrivers(old, new) == old \o new

ToParquetSkipped(exists) == exists
\* df.to_parquet(path): afterwards the artifact exists
ToParquet(exists) == TRUE

\* No state document, no artifacts, nothing in memory.
IngestIdle ==
    /\ mem = NoEntry
    /\ disk = NoEntry
    /\ lapsFile = FALSE
    /\ weatherFile = FALSE
    /\ carFiles = {}
    /\ lapsDf = FALSE
    /\ task = [d \in Drivers |-> "none"]
    /\ runs = 1
    /\ startComplete = FALSE
    /\ diskChanged = FALSE
    /\ fetchCalls = 0
    /\ wrote = FALSE
    /\ sessions = "none"
    /\ driverWrites = 0

IngestInit ==
    /\ ipc = "start"
    /\ IngestIdle

\* Every artifact of the session is marked done in the document and stored.
Complete(entry) ==
    /\ entry.has /\ entry.laps /\ entry.weather
    /\ \A d \in Drivers : PyInt(d) \in Elems(entry.drivers)
    /\ lapsFile /\ weatherFile /\ carFiles = Drivers

\* main: state = load_state(); the client is opened and
\* get_latest_session_key calls get_sessions, which fetches "sessions".
MainLoad ==
    /\ ipc = "start"
    /\ mem' = disk
    /\ StartCall(SessionsCall, "any")
    /\ ipc' = "sessions_fetch"
    /\ UNCHANGED <<disk, lapsFile, weatherFile, carFiles, lapsDf, task, runs,
                   startComplete, diskChanged, fetchCalls, wrote, sessions,
                   driverWrites>>
    /\ UNCHANGED <<mergeVars, featureVars, locatorVars>>

GetLatestSessionKeyUnchecked(data) == IF data = "empty" THEN "IndexError" ELSE "key"
\* get_latest_session_key on the list get_sessions returned: None for an
\* empty list, else the session_key of the session that starts last.
GetLatestSessionKey(data) == IF data = "empty" THEN "None" ELSE "key"

\* process_session: the session's entry is created in memory when missing.
SessionEntry(entry) == IF entry.has THEN entry ELSE FreshEntry

\* 1. Fetch Laps: the skip test, then fetch_laps or read_parquet.
LapsCheck ==
    /\ ipc = "laps_check"
    /\ IF ~mem.laps \/ ~lapsFile
       THEN /\ StartCall(LapsCall, "any")
            /\ fetchCalls' = fetchCalls + 1
            /\ ipc' = "laps_fetch"
            /\ UNCHANGED lapsDf
       ELSE /\ lapsDf' = TRUE
            /\ ipc' = "weather_check"
            /\ UNCHANGED <<clientVars, fetchCalls>>
    /\ UNCHANGED <<mem, disk, lapsFile, weatherFile, carFiles, task, runs,
                   startComplete, diskChanged, wrote>>
    /\ UNCHANGED <<mergeVars, featureVars, locatorVars>>
    /\ UNCHANGED <<sessions, driverWrites>>

\* The results or exceptions with which the in-flight attempt of call c may
\* end the call, over the responses the remote may give.  When one arrives
\* the gate slot is released and the coroutine that awaited fetch runs on
\* without suspending.
Endings(c) ==
    IF pc[c] # "inflight" THEN {}
    ELSE {AfterResponse(attempt[c], r).outcome :
            r \in {x \in Allowed(script[c]) : AfterResponse(attempt[c], x).pc = "done"}}

ConsumeCall(c) ==
    /\ sem' = Release(sem)
    /\ pc' = [pc EXCEPT ![c] = "idle"]
    /\ attempt' = [attempt EXCEPT ![c] = 0]
    /\ issued' = [issued EXCEPT ![c] = 0]
    /\ delay' = [delay EXCEPT ![c] = 0]
    /\ UNCHANGED <<limit, script, outcome>>

\* A response after which tenacity sleeps and retries.
FetchRetry ==
    /\ \E c \in CallIds :
         /\ pc[c] = "inflight"
         /\ \E r \in Allowed(script[c]) : AfterResponse(attempt[c], r).pc = "backoff"
         /\ Respond(c, CHOOSE r \in Allowed(script[c]) :
                          AfterResponse(attempt[c], r).pc = "backoff")
    /\ UNCHANGED <<ingestVars, mergeVars, featureVars, locatorVars>>

\* The sessions fetch returns or raises; main returns when there is no
\* session key and calls process_session otherwise.
SessionsFetched ==
    /\ ipc = "sessions_fetch"
    /\ \E o \in Endings(SessionsCall) :
              IF o.exc # "none"
              THEN /\ ipc' = "failed"
                   /\ UNCHANGED <<mem, sessions>>
              ELSE /\ sessions' = o.data
                   /\ LET key == GetLatestSessionKey(o.data) IN
                        IF key = "None"
                        THEN ipc' = "no_session" /\ UNCHANGED mem
                        ELSE IF key = "key"
                        THEN ipc' = "laps_check" /\ mem' = SessionEntry(mem)
                        ELSE ipc' = "failed" /\ UNCHANGED mem
    /\ ConsumeCall(SessionsCall)
    /\ UNCHANGED <<disk, lapsFile, weatherFile, carFiles, lapsDf, task, runs,
                   startComplete, diskChanged, fetchCalls, wrote, driverWrites>>
    /\ UNCHANGED <<mergeVars, featureVars, locatorVars>>

\* fetch_laps returns or raises; a non-empty table is written to storage.
LapsFetched ==
    /\ ipc = "laps_fetch"
    /\ \E o \in Endings(LapsCall) :
              IF o.exc # "none"
              THEN /\ ipc' = "failed"
                   /\ UNCHANGED <<lapsDf, lapsFile, wrote>>
              ELSE IF o.data = "empty"
              THEN /\ ipc' = "weather_check"
                   /\ lapsDf' = FALSE
                   /\ UNCHANGED <<lapsFile, wrote>>
              ELSE /\ ipc' = "laps_save"
                   /\ lapsDf' = TRUE
                   /\ lapsFile' = ToParquet(lapsFile)
                   /\ wrote' = TRUE
    /\ ConsumeCall(LapsCall)
    /\ UNCHANGED <<mem, disk, weatherFile, carFiles, task, runs, startComplete,
                   diskChanged, fetchCalls>>
    /\ UNCHANGED <<mergeVars, featureVars, locatorVars>>
    /\ UNCHANGED <<sessions, driverWrites>>

\* session_state["laps"] = True; save_state(state)
LapsSave ==
    /\ ipc = "laps_save"
    /\ mem' = [mem EXCEPT !.laps = TRUE]
    /\ disk' = mem'
    /\ diskChanged' = (diskChanged \/ disk' # disk)
    /\ ipc' = "weather_check"
    /\ UNCHANGED <<lapsFile, weatherFile, carFiles, lapsDf, task, runs,
                   startComplete, fetchCalls, wrote>>
    /\ UNCHANGED <<clientVars, mergeVars, featureVars, locatorVars>>
    /\ UNCHANGED <<sessions, driverWrites>>

\* 2. Fetch Weather: the skip test, then fetch_weather.
WeatherCheck ==
    /\ ipc = "weather_check"
    /\ IF ~mem.weather \/ ~weatherFile
       THEN /\ StartCall(WeatherCall, "any")
            /\ fetchCalls' = fetchCalls + 1
            /\ ipc' = "weather_fetch"
       ELSE /\ ipc' = "drivers_check"
            /\ UNCHANGED <<clientVars, fetchCalls>>
    /\ UNCHANGED <<mem, disk, lapsFile, weatherFile, carFiles, lapsDf, task,
                   runs, startComplete, diskChanged, wrote>>
    /\ UNCHANGED <<mergeVars, featureVars, locatorVars>>
    /\ UNCHANGED <<sessions, driverWrites>>

WeatherFetched ==
    /\ ipc = "weather_fetch"
    /\ \E o \in Endings(WeatherCall) :
              IF o.exc # "none"
              THEN /\ ipc' = "failed"
                   /\ UNCHANGED <<weatherFile, wrote>>
              ELSE IF o.data = "empty"
              THEN /\ ipc' = "drivers_check"
                   /\ UNCHANGED <<weatherFile, wrote>>
              ELSE /\ ipc' = "weather_save"
                   /\ weatherFile' = ToParquet(weatherFile)
                   /\ wrote' = TRUE
    /\ ConsumeCall(WeatherCall)
    /\ UNCHANGED <<mem, disk, lapsFile, carFiles, lapsDf, task, runs,
                   startComplete, diskChanged, fetchCalls>>
    /\ UNCHANGED <<mergeVars, featureVars, locatorVars>>
    /\ UNCHANGED <<sessions, driverWrites>>

\* session_state["weather"] = True; save_state(state)
WeatherSave ==
    /\ ipc = "weather_save"
    /\ mem' = [mem EXCEPT !.weather = TRUE]
    /\ disk' = mem'
    /\ diskChanged' = (diskChanged \/ disk' # disk)
    /\ ipc' = "drivers_check"
    /\ UNCHANGED <<lapsFile, weatherFile, carFiles, lapsDf, task, runs,
                   startComplete, fetchCalls, wrote>>
    /\ UNCHANGED <<clientVars, mergeVars, featureVars, locatorVars>>
    /\ UNCHANGED <<sessions, driverWrites>>

NoDriverWorkIgnoringLaps(nonEmptyLaps, pending) == pending = {}
\* if laps_df.empty: return ... if not pending_drivers: return
NoDriverWork(nonEmptyLaps, pending) == ~nonEmptyLaps \/ pending = {}

\* 3. Car data: return when there are no laps or no pending driver;
\* otherwise one task per pending driver is created and gathered.  A task
\* whose driver is logged returns at once, the others call fetch_car_data.
DriversDispatch ==
    /\ ipc = "drivers_check"
    /\ LET pending == PendingDrivers(mem)
           started == {d \in pending : PyStr(d) \notin LoggedDrivers(mem)}
       IN IF NoDriverWork(lapsDf, pending)
          THEN /\ ipc' = "done"
               /\ UNCHANGED <<task, fetchCalls, clientVars>>
          ELSE /\ ipc' = "gather"
               /\ task' = [d \in Drivers |->
                             IF d \in started THEN "running"
                             ELSE IF d \in pending THEN "none_result"
                             ELSE "none"]
               /\ fetchCalls' = fetchCalls + Cardinality(started)
               /\ pc' = [c \in CallIds |-> IF c \in started THEN "wait" ELSE pc[c]]
               /\ attempt' = [c \in CallIds |-> IF c \in started THEN 1 ELSE attempt[c]]
               /\ UNCHANGED <<limit, sem, issued, script, outcome, delay>>
    /\ UNCHANGED <<mem, disk, lapsFile, weatherFile, carFiles, lapsDf, runs,
                   startComplete, diskChanged, wrote>>
    /\ UNCHANGED <<mergeVars, featureVars, locatorVars>>
    /\ UNCHANGED <<sessions, driverWrites>>

\* fetch_and_save_driver(d) once fetch_car_data returned or raised: a
\* non-empty table is written and the driver returned, else None.
TaskFinish ==
    /\ ipc \in {"gather", "failed"}
    /\ \E d \in Drivers :
         /\ task[d] = "running"
         /\ \E o \in Endings(d) :
              IF o.exc # "none"
              THEN /\ task' = [task EXCEPT ![d] = "raised"]
                   /\ UNCHANGED <<carFiles, wrote>>
              ELSE IF o.data = "empty"
              THEN /\ task' = [task EXCEPT ![d] = "none_result"]
                   /\ UNCHANGED <<carFiles, wrote>>
              ELSE /\ task' = [task EXCEPT ![d] = "returned"]
                   /\ carFiles' = IF ToParquet(d \in carFiles)
                                  THEN carFiles \cup {d} ELSE carFiles
                   /\ wrote' = TRUE
         /\ ConsumeCall(d)
    /\ UNCHANGED <<ipc, mem, disk, lapsFile, weatherFile, lapsDf, runs,
                   startComplete, diskChanged, fetchCalls>>
    /\ UNCHANGED <<mergeVars, featureVars, locatorVars>>
    /\ UNCHANGED <<sessions, driverWrites>>

GatherReturnsFirst(t) == \E d \in Drivers : t[d] = "returned"
\* await asyncio.gather(*tasks) returns once every task has returned.
GatherReturns(t) == \A d \in Drivers : t[d] \in {"none", "returned", "none_result"}

NewlyFetchedAll(t) == {d \in Drivers : t[d] \in {"returned", "none_result"}}
\* newly_fetched = [r for r in results if r is not None]
NewlyFetched(t) == {d \in Drivers : t[d] = "returned"}

\* results = await asyncio.gather(*tasks) returns: every task returned.
GatherDone ==
    /\ ipc = "gather"
    /\ GatherReturns(task)
    /\ LET newly == AscSeq(NewlyFetched(task))
       IN IF newly # <<>>
          THEN /\ mem' = [mem EXCEPT !.drivers =
                            ExtendDrivers(@, [i \in DOMAIN newly |-> PyInt(newly[i])])]
               /\ ipc' = "drivers_save"
          ELSE /\ ipc' = "done"
               /\ UNCHANGED mem
    /\ UNCHANGED <<disk, lapsFile, weatherFile, carFiles, lapsDf, task, runs,
                   startComplete, diskChanged, fetchCalls, wrote>>
    /\ UNCHANGED <<clientVars, mergeVars, featureVars, locatorVars>>
    /\ UNCHANGED <<sessions, driverWrites>>

\* save_state(state) after the gather
DriversSave ==
    /\ ipc = "drivers_save"
    /\ disk' = mem
    /\ diskChanged' = (diskChanged \/ disk' # disk)
    /\ ipc' = "done"
    /\ UNCHANGED <<mem, lapsFile, weatherFile, carFiles, lapsDf, task, runs,
                   startComplete, fetchCalls, wrote>>
    /\ UNCHANGED <<clientVars, mergeVars, featureVars, locatorVars>>
    /\ driverWrites' = driverWrites + 1
    /\ UNCHANGED sessions

\* asyncio.gather without return_exceptions: the first exception of a task
\* is raised in process_session, which leaves without updating the state.
GatherFail ==
    /\ ipc = "gather"
    /\ \E d \in Drivers : task[d] = "raised"
    /\ ipc' = "failed"
    /\ UNCHANGED <<mem, disk, lapsFile, weatherFile, carFiles, lapsDf, task,
                   runs, startComplete, diskChanged, fetchCalls, wrote>>
    /\ UNCHANGED <<clientVars, mergeVars, featureVars, locatorVars>>
    /\ UNCHANGED <<sessions, driverWrites>>

\* The exception leaves main; asyncio.run cancels the tasks still running.
MainExit ==
    /\ ipc = "failed"
    /\ ipc' = "exited"
    /\ task' = [d \in Drivers |-> IF task[d] = "running" THEN "cancelled" ELSE task[d]]
    /\ ClientReset
    /\ UNCHANGED <<mem, disk, lapsFile, weatherFile, carFiles, lapsDf, runs,
                   startComplete, diskChanged, fetchCalls, wrote>>
    /\ UNCHANGED <<mergeVars, featureVars, locatorVars>>
    /\ UNCHANGED <<sessions, driverWrites>>

Running == ipc \notin {"start", "done", "exited", "crashed", "no_session"}
Saving == ipc \in {"laps_save", "weather_save", "drivers_save"}

\* The process dies between two steps: everything in memory is lost.
Crash ==
    /\ Running
    /\ ipc' = "crashed"
    /\ mem' = NoEntry
    /\ lapsDf' = FALSE
    /\ task' = [d \in Drivers |-> "none"]
    /\ ClientReset
    /\ UNCHANGED <<disk, lapsFile, weatherFile, carFiles, runs, startComplete,
                   diskChanged, fetchCalls, wrote>>
    /\ UNCHANGED <<mergeVars, featureVars, locatorVars>>
    /\ sessions' = "none"
    /\ UNCHANGED driverWrites

\* The process dies inside save_state, after open(STATE_FILE, "w") truncated
\* the document: load_state then answers {}.
CrashInSave ==
    /\ Saving
    /\ ipc' = "crashed"
    /\ disk' = NoEntry
    /\ diskChanged' = (diskChanged \/ disk' # disk)
    /\ mem' = NoEntry
    /\ lapsDf' = FALSE
    /\ task' = [d \in Drivers |-> "none"]
    /\ ClientReset
    /\ UNCHANGED <<lapsFile, weatherFile, carFiles, runs, startComplete,
                   fetchCalls, wrote>>
    /\ UNCHANGED <<mergeVars, featureVars, locatorVars>>
    /\ sessions' = "none"
    /\ UNCHANGED driverWrites

\* main is invoked again.
Restart ==
    /\ ipc \in {"done", "exited", "crashed", "no_session"}
    /\ runs < MaxRuns
    /\ runs' = runs + 1
    /\ ipc' = "start"
    /\ mem' = NoEntry
    /\ lapsDf' = FALSE
    /\ task' = [d \in Drivers |-> "none"]
    /\ startComplete' = Complete(disk)
    /\ diskChanged' = FALSE
    /\ fetchCalls' = 0
    /\ wrote' = FALSE
    /\ ClientReset
    /\ UNCHANGED <<disk, lapsFile, weatherFile, carFiles>>
    /\ UNCHANGED <<mergeVars, featureVars, locatorVars>>
    /\ sessions' = "none"
    /\ driverWrites' = 0

(***************************************************************************)
(* merge_data: tables are sequences of rows.                               *)
(***************************************************************************)
\* A cell without a value, and the cell of a column the table does not have.
NaN == 0 - 1
NoColumn == 0 - 2

Dates == {0, 10, 60, 70}     \* timestamps: T0, T0+10, T0+60, T0+70
MergeDrivers == {1, 2}        \* driver_number values
LapNumbers == {1, 2}          \* lap_number values
\* <<air_temperature, track_temperature, humidity, rainfall>> of a sample
WeatherReadings == {<<25, 30, 50, 0>>, <<27, 40, 60, 1>>}

CarRow(d, t) == [driver_number |-> d, date |-> t]
LapRow(d, n, t, p) ==
    [driver_number |-> d, lap_number |-> n, date_start |-> t, is_pit_out_lap |-> p]
WeatherRow(t, w) ==
    [date |-> t, air_temperature |-> w[1], track_temperature |-> w[2],
     humidity |-> w[3], rainfall |-> w[4]]

RECURSIVE SeqsUpTo(_, _)
\* The sequences over S of length at most n.
SeqsUpTo(S, n) ==
    IF n = 0 THEN {<<>>}
    ELSE LET shorter == SeqsUpTo(S, n - 1)
         IN shorter \cup {Append(q, x) : q \in shorter, x \in S}

\* car_<session>_<driver>.parquet: the samples of one driver, in any order.
CarFrames ==
    {[i \in DOMAIN ts |-> CarRow(d, ts[i])] :
        d \in MergeDrivers, ts \in SeqsUpTo(Dates, MaxCarRows)}

LapKey(r) == 10 * r.driver_number + r.lap_number

\* laps_<session>.parquet: at most one row per (driver, lap), listed by
\* driver and lap.
LapFrames(n) ==
    {q \in SeqsUpTo({LapRow(d, k, t, p) : d \in MergeDrivers, k \in LapNumbers,
                                          t \in Dates, p \in {0, 1}}, n) :
        \A i \in DOMAIN q : i > 1 => LapKey(q[i - 1]) < LapKey(q[i])}

WeatherFrames(n) ==
    SeqsUpTo({WeatherRow(t, w) : t \in Dates, w \in WeatherReadings}, n)

RECURSIVE OrderFrom(_, _)
\* The indices in `remaining` by ascending key, equal keys in index order.
OrderFrom(keys, remaining) ==
    IF remaining = {} THEN <<>>
    ELSE LET i == CHOOSE x \in remaining :
                    \A y \in remaining :
                       keys[x] < keys[y] \/ (keys[x] = keys[y] /\ x <= y)
         IN <<i>> \o OrderFrom(keys, remaining \ {i})

SortValuesKeep(df, keys) == df
\* df.sort_values(column), keys being the column: rows by ascending key,
\* rows of equal key in their order in df.
SortValues(df, keys) ==
    LET perm == OrderFrom(keys, DOMAIN df)
    IN [i \in DOMAIN df |-> df[perm[i]]]

AsofForward(dates, t) ==
    IF \E j \in DOMAIN dates : dates[j] >= t
    THEN CHOOSE j \in DOMAIN dates :
           dates[j] >= t /\ \A k \in DOMAIN dates : dates[k] >= t => k >= j
    ELSE 0

\* pd.merge_asof(..., direction='backward') for one left key t against the
\* sorted right keys: the last right row whose key is <= t, 0 when none.
AsofBackward(dates, t) ==
    IF \E j \in DOMAIN dates : dates[j] <= t
    THEN CHOOSE j \in DOMAIN dates :
           dates[j] <= t /\ \A k \in DOMAIN dates : dates[k] <= t => k <= j
    ELSE 0

\* merged_df = pd.merge_asof(car_df, laps_merge, on='date', direction='backward')
\* with laps_merge = laps_df.sort_values('date_start')[date, lap_number,
\* is_pit_out_lap]; without laps the table keeps the columns of car_df.
MergeLaps(car, laps) ==
    IF laps # <<>>
    THEN LET lm == SortValues(laps, [i \in DOMAIN laps |-> laps[i].date_start])
             ld == [i \in DOMAIN lm |-> lm[i].date_start]
         IN [i \in DOMAIN car |->
               LET j == AsofBackward(ld, car[i].date)
               IN [driver_number |-> car[i].driver_number,
                   date |-> car[i].date,
                   lap_number |-> IF j = 0 THEN NaN ELSE lm[j].lap_number,
                   is_pit_out_lap |-> IF j = 0 THEN NaN ELSE lm[j].is_pit_out_lap]]
    ELSE [i \in DOMAIN car |->
               [driver_number |-> car[i].driver_number,
                date |-> car[i].date,
                lap_number |-> NoColumn,
                is_pit_out_lap |-> NoColumn]]

\* merged_df = pd.merge_asof(merged_df, weather_merge, on='date',
\* direction='backward') with weather_merge = weather_df.sort_values('date')
\* [date, air_temperature, track_temperature, humidity, rainfall].
MergeWeather(rows, weather) ==
    IF weather # <<>>
    THEN LET wm == SortValues(weather, [i \in DOMAIN weather |-> weather[i].date])
             wd == [i \in DOMAIN wm |-> wm[i].date]
         IN [i \in DOMAIN rows |->
               LET j == AsofBackward(wd, rows[i].date)
               IN [driver_number |-> rows[i].driver_number,
                   date |-> rows[i].date,
                   lap_number |-> rows[i].lap_number,
                   is_pit_out_lap |-> rows[i].is_pit_out_lap,
                   air_temperature |->
                       IF j = 0 THEN NaN ELSE wm[j].air_temperature,
                   track_temperature |->
                       IF j = 0 THEN NaN ELSE wm[j].track_temperature,
                   humidity |-> IF j = 0 THEN NaN ELSE wm[j].humidity,
                   rainfall |-> IF j = 0 THEN NaN ELSE wm[j].rainfall]]
    ELSE [i \in DOMAIN rows |->
               [driver_number |-> rows[i].driver_number,
                date |-> rows[i].date,
                lap_number |-> rows[i].lap_number,
                is_pit_out_lap |-> rows[i].is_pit_out_lap,
                air_temperature |-> NoColumn,
                track_temperature |-> NoColumn,
                humidity |-> NoColumn,
                rainfall |-> NoColumn]]

\* merge_data(car_df, laps_df, weather_df)
MergeData(car, laps, weather) ==
    IF car = <<>> THEN <<>>
    ELSE MergeWeather(
           MergeLaps(SortValues(car, [i \in DOMAIN car |-> car[i].date]), laps),
           weather)

\* The harness calls merge_data on its input tables.
Merge ==
    /\ mpc = "input"
    /\ merged_df' = MergeData(car_df, laps_df, weather_df)
    /\ mpc' = "merged"
    /\ UNCHANGED <<car_df, laps_df, weather_df, features_df>>
    /\ UNCHANGED <<clientVars, ingestVars, featureVars, locatorVars>>

MergeIdle ==
    /\ mpc = "input"
    /\ car_df = <<>>
    /\ laps_df = <<>>
    /\ weather_df = <<>>
    /\ merged_df = <<>>
    /\ features_df = <<>>

(***************************************************************************)
(* calculate_tire_age_adjusted (cleaning.py).  tire_age_adj is held in     *)
(* twentieths: 0.05 = 1/20, so tire_age_adj * 20 =                         *)
(* laps_since_pit * (20 + (temp - 30)).                                    *)
(***************************************************************************)
AdjScale == 20           \* 1 / 0.05
ReferenceTemp == 30      \* the 30.0 of the adjustment factor
DefaultTrackTemp == 30   \* track_temp: float = 30.0

AgeStints == {1, 2}           \* stnt values
AgeLapNumbers == {1, 2, 4}    \* lap_number values
AgeTemperatures == {30, 40}   \* track_temperature values

AgeRow(st, p, n, x) ==
    [stnt |-> st, is_pit_out_lap |-> p, lap_number |-> n, track_temperature |-> x]

\* The rows a table may hold, its columns being chosen per table: a stnt
\* column or an is_pit_out_lap column or neither, with or without
\* lap_number, with or without track_temperature.
AgeRowSets ==
    {{AgeRow(st, p, k, x) : st \in sp[1], p \in sp[2], k \in ks, x \in xs} :
        sp \in {<<AgeStints, {NoColumn}>>, <<{NoColumn}, {0, 1, NaN}>>,
                <<{NoColumn}, {NoColumn}>>},
        ks \in {AgeLapNumbers, {NoColumn}},
        xs \in {AgeTemperatures, {NoColumn}}}

\* Series.fillna(0)
FillNa0(v) == IF v = NaN THEN 0 ELSE v

RECURSIVE CumSum(_, _)
\* Series.cumsum() up to index i
CumSum(q, i) == IF i = 0 THEN 0 ELSE CumSum(q, i - 1) + q[i]

\* Column c is in df.columns (an empty table is given its columns).
HasColumn(rows, c) == \A i \in DOMAIN rows : rows[i][c] # NoColumn

\* df['stnt'] when the column is there, else
\* df['is_pit_out_lap'].fillna(0).astype(int).cumsum()
StintColumn(rows) ==
    IF HasColumn(rows, "stnt")
    THEN [i \in DOMAIN rows |-> rows[i].stnt]
    ELSE LET pit == [i \in DOMAIN rows |-> FillNa0(rows[i].is_pit_out_lap)]
         IN [i \in DOMAIN rows |-> CumSum(pit, i)]

\* min of a non-empty set of integers
SetMin(S) == CHOOSE x \in S : \A y \in S : x <= y

\* df.groupby('stnt')['lap_number'].transform(lambda x: x - x.min()); min
\* skips NaN and NaN - min is NaN
LapsSincePit(rows, st) ==
    [i \in DOMAIN rows |->
        IF rows[i].lap_number = NaN THEN NaN
        ELSE rows[i].lap_number
               - SetMin({rows[j].lap_number :
                           j \in {k \in DOMAIN rows :
                                     st[k] = st[i] /\ rows[k].lap_number # NaN}})]

TempFactor20Flat(temp) == AdjScale
\* (1 + 0.05 * (temp - 30.0)), in twentieths
TempFactor20(temp) == AdjScale + (temp - ReferenceTemp)

\* calculate_tire_age_adjusted(df, track_temp=30.0)
CalculateTireAgeAdjusted(rows) ==
    IF ~HasColumn(rows, "stnt") /\ ~HasColumn(rows, "is_pit_out_lap")
    THEN [i \in DOMAIN rows |->
            [stnt |-> rows[i].stnt, is_pit_out_lap |-> rows[i].is_pit_out_lap,
             lap_number |-> rows[i].lap_number,
             track_temperature |-> rows[i].track_temperature,
             laps_since_pit |-> NoColumn, tire_age_adj |-> NoColumn]]
    ELSE LET st == StintColumn(rows) IN
         IF ~HasColumn(rows, "lap_number")
         THEN [i \in DOMAIN rows |->
                 [stnt |-> st[i], is_pit_out_lap |-> rows[i].is_pit_out_lap,
                  lap_number |-> rows[i].lap_number,
                  track_temperature |-> rows[i].track_temperature,
                  laps_since_pit |-> NoColumn, tire_age_adj |-> NoColumn]]
         ELSE LET lsp == LapsSincePit(rows, st) IN
              [i \in DOMAIN rows |->
                 LET temp == IF HasColumn(rows, "track_temperature")
                             THEN rows[i].track_temperature
                             ELSE DefaultTrackTemp
                 IN [stnt |-> st[i], is_pit_out_lap |-> rows[i].is_pit_out_lap,
                     lap_number |-> rows[i].lap_number,
                     track_temperature |-> rows[i].track_temperature,
                     laps_since_pit |-> lsp[i],
                     tire_age_adj |-> IF lsp[i] = NaN \/ temp = NaN THEN NaN
                                      ELSE lsp[i] * TempFactor20(temp)]]

\* process_features(car_df, laps_df, weather_df).  The car tables of the
\* model have no speed, rpm, throttle, brake, drs, gear or gap_to_leader
\* column, so interpolate_missing, smooth_telemetry and
\* calculate_interval_delta return the table as it is.
ProcessFeatures(car, laps, weather) ==
    LET df == MergeData(car, laps, weather)
        aged == CalculateTireAgeAdjusted(
                    [i \in DOMAIN df |->
                        AgeRow(NoColumn, df[i].is_pit_out_lap, df[i].lap_number,
                               df[i].track_temperature)])
    IN IF df = <<>> THEN df
       ELSE [i \in DOMAIN df |->
               [driver_number |-> df[i].driver_number,
                date |-> df[i].date,
                lap_number |-> df[i].lap_number,
                is_pit_out_lap |-> df[i].is_pit_out_lap,
                air_temperature |-> df[i].air_temperature,
                track_temperature |-> df[i].track_temperature,
                humidity |-> df[i].humidity,
                rainfall |-> df[i].rainfall,
                stnt |-> aged[i].stnt,
                laps_since_pit |-> aged[i].laps_since_pit,
                tire_age_adj |-> aged[i].tire_age_adj]]

\* The harness calls process_features on its input tables.
ProcessFeaturesCall ==
    /\ mpc = "input"
    /\ features_df' = ProcessFeatures(car_df, laps_df, weather_df)
    /\ mpc' = "featured"
    /\ UNCHANGED <<car_df, laps_df, weather_df, merged_df>>
    /\ UNCHANGED <<clientVars, ingestVars, featureVars, locatorVars>>

TireAge ==
    /\ fpc = "age_input"
    /\ aged_df' = CalculateTireAgeAdjusted(age_df)
    \* df['stnt'] = ..., df['laps_since_pit'] = ..., df['tire_age_adj'] = ...
    \* and return df: the returned table is the caller's
    /\ age_df' = aged_df'
    /\ fpc' = "age_done"
    /\ UNCHANGED <<given_df, stint_laps, flagged_laps, survival_data, channelVars>>
    /\ UNCHANGED <<clientVars, ingestVars, mergeVars, locatorVars>>

(***************************************************************************)
(* calculate_tire_life_probability (strategy_processor.py).  A             *)
(* prob_survival is the exact fraction num/den of the product the code     *)
(* accumulates.                                                            *)
(***************************************************************************)
FailureThreshold2 == 3   \* 2 * 1.5: pace_delta > 1.5
RollingWindow == 3       \* rolling(window=3, min_periods=1)

\* (driver_id, stint, lap_number) of the laps a mixed table may hold: two
\* stints of driver 1 and a stint of driver 2.
LifeKeys == {<<1, 1, 1>>, <<1, 1, 2>>, <<1, 2, 3>>, <<2, 1, 1>>, <<2, 1, 2>>}
LifeDurations == {90, 92}
LifeAges == {1, 2, 3}
\* groupby iterates its keys in sorted order
CircuitOrder == <<"monza", "spa">>
CompoundOrder == <<"HARD", "SOFT">>
LifeGroups == {<<"monza", "HARD">>, <<"monza", "SOFT">>, <<"spa", "SOFT">>}

LifeRow(k, dur, g, age) ==
    [driver_id |-> k[1], stint |-> k[2], lap_number |-> k[3], lap_duration |-> dur,
     circuit_id |-> g[1], compound |-> g[2], tire_age |-> age]

LifeKey(r) == 100 * r.driver_id + 10 * r.stint + r.lap_number

\* The table holding, for each key of K, a lap with the attributes
\* (duration, group, age) that f gives for it, listed by driver, stint and
\* lap.
LifeTable(K, f) ==
    LET ks == AscSeq({100 * k[1] + 10 * k[2] + k[3] : k \in K})
        keyOf(c) == CHOOSE k \in K : 100 * k[1] + 10 * k[2] + k[3] = c
    IN [i \in DOMAIN ks |->
          LET k == keyOf(ks[i]) IN LifeRow(k, f[k][1], f[k][2], f[k][3])]

RECURSIVE SumSeq(_, _, _)
\* q[lo] + ... + q[hi]
SumSeq(q, lo, hi) == IF lo > hi THEN 0 ELSE q[lo] + SumSeq(q, lo + 1, hi)

\* One stint of one driver on one compound, the tire age being the lap of
\* the stint: long enough for the rolling window to leave laps out.
StintTable(durs) ==
    [i \in DOMAIN durs |-> LifeRow(<<1, 1, i>>, durs[i], <<"monza", "SOFT">>, i)]

BaselineLapsWithSelf(sorted, i) ==
    LET upto == {j \in 1..i : /\ sorted[j].driver_id = sorted[i].driver_id
                              /\ sorted[j].stint = sorted[i].stint}
    IN {j \in upto : Cardinality({k \in upto : k > j}) < RollingWindow}
\* groupby(['driver_id', 'stint'])['lap_duration'].transform(lambda x:
\* x.rolling(window=3, min_periods=1).mean().shift(1)): the rows the mean of
\* row i is taken over, the up to 3 rows before it in its group.
BaselineLaps(sorted, i) ==
    LET prev == {j \in 1..(i - 1) : /\ sorted[j].driver_id = sorted[i].driver_id
                                    /\ sorted[j].stint = sorted[i].stint}
    IN {j \in prev : Cardinality({k \in prev : k > j}) < RollingWindow}

\* df.sort_values(['driver_id', 'stint', 'lap_number']) and, per row,
\* is_failure = (lap_duration - rolling_pace > 1.5), rolling_pace being the
\* mean of the up to 3 previous laps of the row's (driver_id, stint) group
\* (NaN, hence no failure, for the first lap of a stint).
WithFailures(rows) ==
    LET sorted == SortValues(rows, [i \in DOMAIN rows |-> LifeKey(rows[i])])
        durs == [i \in DOMAIN sorted |-> sorted[i].lap_duration]
    IN [i \in DOMAIN sorted |->
          LET window == BaselineLaps(sorted, i)
              total == SumSeq([j \in DOMAIN sorted |->
                                 IF j \in window THEN durs[j] ELSE 0], 1, Len(sorted))
          IN [driver_id |-> sorted[i].driver_id, stint |-> sorted[i].stint,
              lap_number |-> sorted[i].lap_number,
              lap_duration |-> sorted[i].lap_duration,
              circuit_id |-> sorted[i].circuit_id, compound |-> sorted[i].compound,
              tire_age |-> sorted[i].tire_age,
              is_failure |->
                  IF window = {} THEN 0
                  ELSE IF 2 * (durs[i] * Cardinality(window) - total)
                            > FailureThreshold2 * Cardinality(window)
                       THEN 1 ELSE 0]]

One == [num |-> 1, den |-> 1]

SurviveStepReset(p, n, f) == [num |-> n - f, den |-> n]
\* hazard = n_failed / n_at_risk; prob_survival *= (1 - hazard)
SurviveStep(p, n, f) == [num |-> p.num * (n - f), den |-> p.den * n]

SetMax(S) == CHOOSE x \in S : \A y \in S : x >= y

AtRiskStints(comp, age) == Cardinality({comp[i].stint : i \in DOMAIN comp})
\* age_counts['count'] at the age: the laps of the group at that tire_age
AtRisk(comp, age) == Cardinality({i \in DOMAIN comp : comp[i].tire_age = age})

RECURSIVE SurvivalCurve(_, _, _, _, _)
\* for age in range(age, max_age + 1): ... survival_data.append(...)
SurvivalCurve(comp, g, age, max_age, p) ==
    IF age > max_age THEN <<>>
    ELSE LET at == {i \in DOMAIN comp : comp[i].tire_age = age}
             n == AtRisk(comp, age)
             f == Cardinality({i \in at : comp[i].is_failure = 1})
             q == IF n > 0 THEN SurviveStep(p, n, f) ELSE p
         IN <<[circuit_id |-> g[1], compound |-> g[2], tire_age |-> age,
               prob_survival |-> q]>>
            \o SurvivalCurve(comp, g, age + 1, max_age, q)

\* The rows of one (circuit, compound) group
GroupRows(rows, g) ==
    SelectSeq(rows, LAMBDA r : r.circuit_id = g[1] /\ r.compound = g[2])

RECURSIVE SurvivalGroups(_, _, _)
\* for circuit, c_df in df.groupby('circuit_id'):
\*     for compound, comp_df in c_df.groupby('compound'):
SurvivalGroups(rows, ci, ki) ==
    IF ci > Len(CircuitOrder) THEN <<>>
    ELSE IF ki > Len(CompoundOrder) THEN SurvivalGroups(rows, ci + 1, 1)
    ELSE LET g == <<CircuitOrder[ci], CompoundOrder[ki]>>
             comp == GroupRows(rows, g)
         IN (IF comp = <<>> THEN <<>>
             ELSE SurvivalCurve(comp, g, 1,
                                SetMax({comp[i].tire_age : i \in DOMAIN comp}), One))
            \o SurvivalGroups(rows, ci, ki + 1)

\* calculate_tire_life_probability(laps_df)
CalculateTireLifeProbability(rows) ==
    IF rows = <<>> THEN <<>>
    ELSE SurvivalGroups(WithFailures(rows), 1, 1)

TireLife ==
    /\ fpc = "life_input"
    /\ flagged_laps' = WithFailures(stint_laps)
    /\ survival_data' = CalculateTireLifeProbability(stint_laps)
    /\ fpc' = "life_done"
    /\ UNCHANGED <<given_df, age_df, aged_df, stint_laps, channelVars>>
    /\ UNCHANGED <<clientVars, ingestVars, mergeVars, locatorVars>>

(***************************************************************************)
(* interpolate_missing (processor.py): speed stands for the continuous     *)
(* channels, gear is the categorical one.                                  *)
(***************************************************************************)
Speeds == {0, 60}
Gears == {2, 4}

TelemetryRow(v, g) == [speed |-> v, gear |-> g]

\* The rows a table may hold, with or without each of the two columns.
TelemetryRowSets ==
    {{TelemetryRow(v, g) : v \in vs, g \in gs} :
        vs \in {Speeds \cup {NaN}, {NoColumn}},
        gs \in {Gears \cup {NaN}, {NoColumn}}}

\* The nearest index before i (after i) that holds a value, 0 when none.
ValidBefore(col, i) ==
    LET S == {j \in 1..(i - 1) : col[j] # NaN}
    IN IF S = {} THEN 0 ELSE CHOOSE j \in S : \A k \in S : k <= j
ValidAfter(col, i) ==
    LET S == {j \in (i + 1)..Len(col) : col[j] # NaN}
    IN IF S = {} THEN 0 ELSE CHOOSE j \in S : \A k \in S : k >= j

\* Series.interpolate(method='linear', limit_direction='both'): rows are
\* equally spaced; gaps at either end take the nearest value.  The values
\* of the model make every interpolated value an integer.
Interpolate(col) ==
    [i \in DOMAIN col |->
        IF col[i] # NaN THEN col[i]
        ELSE LET l == ValidBefore(col, i)
                 r == ValidAfter(col, i)
             IN IF l = 0 /\ r = 0 THEN NaN
                ELSE IF l = 0 THEN col[r]
                ELSE IF r = 0 THEN col[l]
                ELSE col[l] + ((col[r] - col[l]) * (i - l)) \div (r - l)]

FFillLinear(col) == Interpolate(col)
\* Series.ffill()
FFill(col) ==
    [i \in DOMAIN col |->
        IF col[i] # NaN THEN col[i]
        ELSE LET l == ValidBefore(col, i)
             IN IF l = 0 THEN NaN ELSE col[l]]

\* interpolate_missing(df)
InterpolateMissing(rows) ==
    LET speed == IF rows # <<>> /\ HasColumn(rows, "speed")
                 THEN Interpolate([i \in DOMAIN rows |-> rows[i].speed])
                 ELSE [i \in DOMAIN rows |-> rows[i].speed]
        gear == IF rows # <<>> /\ HasColumn(rows, "gear")
                THEN FFill([i \in DOMAIN rows |-> rows[i].gear])
                ELSE [i \in DOMAIN rows |-> rows[i].gear]
    IN [i \in DOMAIN rows |-> TelemetryRow(speed[i], gear[i])]

FillMissing ==
    /\ fpc = "fill_input"
    /\ filled_df' = InterpolateMissing(telemetry_df)
    \* df[continuous_cols] = ..., df[categorical_cols] = ... and return df
    /\ telemetry_df' = filled_df'
    /\ fpc' = "fill_done"
    /\ UNCHANGED <<given_df, age_df, aged_df, stint_laps, flagged_laps, survival_data>>
    /\ UNCHANGED <<gap_df, delta_df>>
    /\ UNCHANGED <<clientVars, ingestVars, mergeVars, locatorVars>>

(***************************************************************************)
(* calculate_interval_delta (cleaning.py).  The intervals of the model     *)
(* make every rolling mean an integer.                                     *)
(***************************************************************************)
IntervalWindow == 240    \* rolling(window=240, min_periods=1)

Intervals == {0, 60}
GapsToLeader == {120}

GapRow(g, v) ==
    [gap_to_leader |-> g, interval |-> v,
     interval_avg_60s |-> NoColumn, interval_delta |-> NoColumn]

GapRowSets ==
    {{GapRow(g, v) : g \in gs, v \in vs} :
        gs \in {GapsToLeader, {NoColumn}}, vs \in {Intervals, {NoColumn}}}

\* Series.rolling(window=240, min_periods=1).mean() at row i
RollingMean(col, i) ==
    LET lo == Max2(1, i - IntervalWindow + 1)
    IN SumSeq(col, lo, i) \div (i - lo + 1)

\* calculate_interval_delta(df)
CalculateIntervalDelta(rows) ==
    IF rows = <<>> \/ ~HasColumn(rows, "gap_to_leader") THEN rows
    ELSE IF ~HasColumn(rows, "interval") THEN rows
    ELSE LET col == [i \in DOMAIN rows |-> rows[i].interval]
         IN [i \in DOMAIN rows |->
               [gap_to_leader |-> rows[i].gap_to_leader,
                interval |-> rows[i].interval,
                interval_avg_60s |-> RollingMean(col, i),
                interval_delta |-> rows[i].interval - RollingMean(col, i)]]

IntervalDelta ==
    /\ fpc = "delta_input"
    /\ delta_df' = CalculateIntervalDelta(gap_df)
    \* df['interval_avg_60s'] = ..., df['interval_delta'] = ... and return df
    /\ gap_df' = delta_df'
    /\ fpc' = "delta_done"
    /\ UNCHANGED <<given_df, age_df, aged_df, stint_laps, flagged_laps, survival_data>>
    /\ UNCHANGED <<telemetry_df, filled_df>>
    /\ UNCHANGED <<clientVars, ingestVars, mergeVars, locatorVars>>

FeatureIdle ==
    /\ fpc = "idle"
    /\ given_df = <<>>
    /\ age_df = <<>>
    /\ aged_df = <<>>
    /\ stint_laps = <<>>
    /\ flagged_laps = <<>>
    /\ survival_data = <<>>
    /\ telemetry_df = <<>>
    /\ filled_df = <<>>
    /\ gap_df = <<>>
    /\ delta_df = <<>>

(***************************************************************************)
(* SessionManager (session_manager.py).  date_start is an ISO timestamp,   *)
(* compared as a string: the model orders integers the same way.           *)
(***************************************************************************)
DefaultYear == 2024      \* get_sessions(year=2024)

\* None where a session key is expected; session keys are positive
PyNone == 0 - 1

SessionYears == {2023, 2024}
SessionNames == {"Race", "Qualifying"}
SessionDates == {1, 2}

\* The i-th session of the remote list; session keys are unique.
SessionRow(i, a) ==
    [year |-> a[1], session_name |-> a[2], date_start |-> a[3], session_key |-> i]

\* GET sessions?year=<year>: the remote answers with the sessions of the year.
FetchSessions(all, year) == SelectSeq(all, LAMBDA x : x.year = year)

\* get_sessions(year, type)
GetSessions(all, year, type) ==
    LET data == FetchSessions(all, year)
    IN IF type # "None"
       THEN SelectSeq(data, LAMBDA x : x.session_name = type)
       ELSE data

\* get_latest_session_key(): it takes no year and no label
GetLatestSessionKeyOf(all) ==
    LET sessions_ == GetSessions(all, DefaultYear, "None")
    IN IF sessions_ = <<>> THEN PyNone
       ELSE LET sorted == SortValues(sessions_,
                              [i \in DOMAIN sessions_ |-> sessions_[i].date_start])
            IN sorted[Len(sorted)].session_key

\* A caller wanting the sessions of (want_year, want_type) calls get_sessions.
ListSessions ==
    /\ lpc = "input"
    /\ listed' = GetSessions(remote_sessions, want_year, want_type)
    /\ lpc' = "listed"
    /\ UNCHANGED <<remote_sessions, want_year, want_type, located>>
    /\ UNCHANGED <<clientVars, ingestVars, mergeVars, featureVars>>

\* A caller wanting the latest session of (want_year, want_type) calls
\* get_latest_session_key, the only operation that selects the latest.
LocateLatest ==
    /\ lpc = "input"
    /\ located' = GetLatestSessionKeyOf(remote_sessions)
    /\ lpc' = "located"
    /\ UNCHANGED <<remote_sessions, want_year, want_type, listed>>
    /\ UNCHANGED <<clientVars, ingestVars, mergeVars, featureVars>>

LocatorIdle ==
    /\ lpc = "idle"
    /\ remote_sessions = <<>>
    /\ want_year = DefaultYear
    /\ want_type = "None"
    /\ listed = <<>>
    /\ located = PyNone

InitClient ==
    /\ \E lim \in 1..MaxGate : ClientInit(lim)
    /\ IngestInit
    /\ MergeIdle
    /\ FeatureIdle
    /\ LocatorIdle

NextClient ==
    \/ HarnessStart
    \/ FetchAcquire
    \/ FetchRespond
    \/ FetchWake

SpecClient == InitClient /\ [][NextClient]_vars

InitIngest ==
    /\ ClientInit(MainConcurrencyLimit)
    /\ IngestInit
    /\ MergeIdle
    /\ FeatureIdle
    /\ LocatorIdle

NextIngest ==
    \/ MainLoad
    \/ SessionsFetched
    \/ LapsCheck
    \/ FetchRetry
    \/ LapsFetched
    \/ LapsSave
    \/ WeatherCheck
    \/ WeatherFetched
    \/ WeatherSave
    \/ DriversDispatch
    \/ TaskFinish
    \/ GatherDone
    \/ DriversSave
    \/ GatherFail
    \/ MainExit
    \/ Crash
    \/ CrashInSave
    \/ Restart
    \/ FetchAcquire
    \/ FetchWake

SpecIngest == InitIngest /\ [][NextIngest]_vars

InitMerge ==
    /\ \E lim \in {MainConcurrencyLimit} : ClientInit(lim)
    /\ IngestInit
    /\ mpc = "input"
    /\ merged_df = <<>>
    /\ features_df = <<>>
    /\ car_df \in CarFrames
    /\ \E n \in 0..Min2(MaxRefRows, Cardinality(MergeDrivers \X LapNumbers)) :
         /\ laps_df \in LapFrames(n)
         /\ Len(laps_df) = n
         /\ weather_df \in WeatherFrames(MaxRefRows - n)
    /\ FeatureIdle
    /\ LocatorIdle

NextMerge == Merge

SpecMerge == InitMerge /\ [][NextMerge]_vars

NextPipeline == ProcessFeaturesCall

SpecPipeline == InitMerge /\ [][NextPipeline]_vars

(***************************************************************************)
(* Progress.  One run without crashes, of the client harness (ipc =        *)
(* "harness") or of main, with a client of any gate size: main builds it   *)
(* with 5, smaller gates make the driver tasks contend for it.  Every      *)
(* step of the program and every response is taken if it stays possible.   *)
(***************************************************************************)
LiveHarnessStart ==
    /\ ipc = "harness"
    /\ \E c \in HarnessCalls : StartCall(c, "any")
    /\ UNCHANGED <<ingestVars, mergeVars, featureVars, locatorVars>>

LiveRespond ==
    /\ ipc = "harness"
    /\ FetchRespond

InitLive ==
    /\ \E lim \in (1..MaxGate) \cup {MainConcurrencyLimit} : ClientInit(lim)
    /\ ipc \in {"start", "harness"}
    /\ IngestIdle
    /\ MergeIdle
    /\ FeatureIdle
    /\ LocatorIdle

LiveProgress ==
    \/ LiveRespond
    \/ FetchAcquire
    \/ FetchWake
    \/ MainLoad
    \/ SessionsFetched
    \/ LapsCheck
    \/ FetchRetry
    \/ LapsFetched
    \/ LapsSave
    \/ WeatherCheck
    \/ WeatherFetched
    \/ WeatherSave
    \/ DriversDispatch
    \/ TaskFinish
    \/ GatherDone
    \/ DriversSave
    \/ GatherFail
    \/ MainExit

NextLive == LiveHarnessStart \/ LiveProgress

SpecLive == InitLive /\ [][NextLive]_vars /\ WF_vars(LiveProgress)

InitLocator ==
    /\ ClientInit(MainConcurrencyLimit)
    /\ IngestInit
    /\ MergeIdle
    /\ FeatureIdle
    /\ lpc = "input"
    /\ \E n \in 0..MaxSessions :
         \E f \in [1..n -> SessionYears \X SessionNames \X SessionDates] :
            remote_sessions = [i \in 1..n |-> SessionRow(i, f[i])]
    /\ want_year \in SessionYears
    /\ want_type \in SessionNames \cup {"None"}
    /\ listed = <<>>
    /\ located = PyNone

NextLocator == ListSessions \/ LocateLatest

SpecLocator == InitLocator /\ [][NextLocator]_vars

InitFeatures ==
    /\ ClientInit(MainConcurrencyLimit)
    /\ IngestInit
    /\ MergeIdle
    /\ LocatorIdle
    /\ aged_df = <<>>
    /\ flagged_laps = <<>>
    /\ survival_data = <<>>
    /\ filled_df = <<>>
    /\ delta_df = <<>>
    /\ \/ /\ fpc = "age_input"
          /\ \E n \in 0..MaxAgeRows, rows \in AgeRowSets : age_df \in [1..n -> rows]
          /\ given_df = age_df
          /\ stint_laps = <<>>
          /\ telemetry_df = <<>>
          /\ gap_df = <<>>
       \/ /\ fpc = "fill_input"
          /\ \E n \in 0..MaxChannelRows, rows \in TelemetryRowSets :
               telemetry_df \in [1..n -> rows]
          /\ given_df = telemetry_df
          /\ age_df = <<>>
          /\ stint_laps = <<>>
          /\ gap_df = <<>>
       \/ /\ fpc = "delta_input"
          /\ \E n \in 0..MaxChannelRows, rows \in GapRowSets :
               gap_df \in [1..n -> rows]
          /\ given_df = gap_df
          /\ age_df = <<>>
          /\ stint_laps = <<>>
          /\ telemetry_df = <<>>
       \/ /\ fpc = "life_input"
          /\ \/ \E K \in SUBSET LifeKeys :
                  /\ Cardinality(K) <= MaxLifeRows
                  /\ \E f \in [K -> LifeDurations \X LifeGroups \X LifeAges] :
                       stint_laps = LifeTable(K, f)
             \/ \E n \in 0..MaxStintLaps :
                  \E durs \in [1..n -> LifeDurations] :
                     stint_laps = StintTable(durs)
          /\ given_df = <<>>
          /\ age_df = <<>>
          /\ telemetry_df = <<>>
          /\ gap_df = <<>>

NextFeatures == TireAge \/ TireLife \/ FillMissing \/ IntervalDelta

SpecFeatures == InitFeatures /\ [][NextFeatures]_vars

(***************************************************************************)
(* Properties.                                                             *)
(***************************************************************************)

\* C1: for one client with gate size C, whatever the interleaving of the
\* concurrent fetch calls and of their retry attempts, the number of HTTP
\* requests issued and not yet resolved never exceeds C.
C1_ConcurrencyBound == Cardinality(InFlight) <= limit

\* The gate is full while another call waits at it for a retry attempt.
C1_GateFullWitness ==
    /\ Cardinality(InFlight) = limit
    /\ \E c \in CallIds : pc[c] = "wait" /\ attempt[c] > 1

\* The failure of a call whose response was malformed.
MalformedFailure(c) ==
    /\ pc[c] = "done"
    /\ \/ outcome[c].exc \in {"ContentTypeError", "JSONDecodeError"}
       \/ outcome[c].cause = "ContentTypeError"

\* C2: a fetch whose every response is HTTP 429 issues exactly 5 requests
\* and then fails with the exhausted-retries outcome (tenacity's RetryError
\* around the 429 error), which differs from the outcome of every call that
\* failed on a malformed response and of every call that succeeded.
C2_RetryCeiling ==
    \A c \in CallIds :
        script[c] = "always429" =>
            /\ issued[c] <= 5
            /\ pc[c] = "done" =>
                 /\ issued[c] = 5
                 /\ outcome[c].exc = "RetryError"
                 /\ outcome[c].status = 429
                 /\ \A o \in CallIds :
                      (MalformedFailure(o) \/ (pc[o] = "done" /\ outcome[o].exc = "none"))
                          => outcome[o] # outcome[c]

\* A call answered 429 every time has ended, beside one that failed on a
\* malformed response.
C2_ExhaustedWitness ==
    \E c, o \in CallIds :
        /\ script[c] = "always429" /\ pc[c] = "done"
        /\ script[o] = "alwaysHtml" /\ MalformedFailure(o)

\* C3: a fetch whose response is a non-success status other than 429 or 5xx
\* (404) fails after exactly one request: it is never retried.
C3_NoRetryOn404 ==
    \A c \in CallIds :
        script[c] = "always404" =>
            /\ pc[c] # "backoff"
            /\ issued[c] <= 1
            /\ pc[c] = "done" => outcome[c].exc \notin {"none", "pending"}

\* C4: a fetch whose response has a success status but a Content-Type other
\* than application/json fails after exactly one request, with the
\* malformed-response error and not the exhausted-retries outcome: it is
\* never retried.
C4_MalformedNotRetried ==
    \A c \in CallIds :
        script[c] = "alwaysHtml" =>
            /\ pc[c] # "backoff"
            /\ issued[c] <= 1
            /\ pc[c] = "done" => outcome[c].exc = "ContentTypeError"

\* C5: a run of process_session that begins with laps, weather and every
\* driver marked done in the persisted state and stored as artifacts makes
\* no fetch call and leaves the persisted state and the artifacts unchanged.
C5_IdempotentRerun ==
    startComplete =>
        /\ fetchCalls = 0
        /\ \A c \in Drivers \cup {LapsCall, WeatherCall} : pc[c] = "idle"
        /\ ~diskChanged
        /\ ~wrote

\* What the persisted state marks as done has its artifact in storage.
Backed(entry) ==
    /\ entry.laps => lapsFile
    /\ entry.weather => weatherFile
    /\ \A i \in DOMAIN entry.drivers : entry.drivers[i].v \in carFiles

\* C6: in every reachable state, also after a crash between any two steps
\* of process_session, laps, weather and every driver that the durably
\* written state marks as done have their artifact file written.
C6_StateImpliesArtifact == Backed(disk)

\* A crash after a driver's artifact was written and before the state was
\* saved, with earlier work already recorded.
C6_CrashWitness ==
    /\ ipc = "crashed"
    /\ disk.laps /\ disk.weather /\ disk.drivers # <<>>
    /\ \E d \in carFiles : PyInt(d) \notin Elems(disk.drivers)

\* C7: when the fetch of one driver fails, the session is not aborted:
\* every other dispatched task still runs to completion, and a driver whose
\* artifact was persisted is in the persisted driver set when the run ends.
C7_FailureIsolated ==
    (ipc \in {"done", "exited"} /\ \E d \in Drivers : task[d] = "raised") =>
        \A d \in Drivers :
            /\ task[d] # "cancelled"
            /\ task[d] = "returned" => PyInt(d) \in Elems(disk.drivers)

\* entry b keeps every flag and every driver of entry a.
Keeps(a, b) ==
    /\ a.laps => b.laps
    /\ a.weather => b.weather
    /\ Elems(a.drivers) \subseteq Elems(b.drivers)

\* C8: within a run of process_session the laps flag and the weather flag
\* never go from true to false and no driver id leaves the driver set, in
\* the in-memory state and in every persisted state document of the run.
C8_Monotonic ==
    [][(runs' = runs /\ ipc' # "crashed") => (Keeps(mem, mem') /\ Keeps(disk, disk'))]_vars

\* A second run that added to a driver set already persisted by the first.
C8_SecondRunWitness ==
    /\ runs > 1
    /\ ipc = "done"
    /\ diskChanged
    /\ disk.laps /\ disk.weather
    /\ Len(disk.drivers) > NumDrivers

HasLap(row) == row.lap_number \notin {NaN, NoColumn}

\* C9: every output row of merge_data that carries a lap carries the lap of
\* its own driver with the greatest date_start <= the row's timestamp, also
\* when the laps input holds laps of several drivers.
C9_LapOfOwnDriver ==
    mpc = "merged" =>
        \A i \in DOMAIN merged_df :
            LET row == merged_df[i] IN
            HasLap(row) =>
                \E k \in DOMAIN laps_df :
                    /\ laps_df[k].driver_number = row.driver_number
                    /\ laps_df[k].lap_number = row.lap_number
                    /\ laps_df[k].is_pit_out_lap = row.is_pit_out_lap
                    /\ laps_df[k].date_start <= row.date
                    /\ \A m \in DOMAIN laps_df :
                         (/\ laps_df[m].driver_number = row.driver_number
                          /\ laps_df[m].date_start <= row.date)
                            => laps_df[m].date_start <= laps_df[k].date_start

\* C10: when the laps input is non-empty, no car sample whose timestamp is
\* strictly before the earliest lap date_start is in the output of merge_data.
C10_PreLapDropped ==
    (mpc = "merged" /\ laps_df # <<>>) =>
        \A i \in DOMAIN merged_df :
            \E k \in DOMAIN laps_df : laps_df[k].date_start <= merged_df[i].date

\* The laps input holds laps of one driver only.
SingleDriverLaps == \A i, j \in DOMAIN laps_df :
                        laps_df[i].driver_number = laps_df[j].driver_number

\* C11: with laps of a single driver, every car sample at or after the first
\* lap start gets the lap_number of a lap with the greatest date_start <= the
\* sample's timestamp; for laps 1 at T0 and 2 at T0+60 and samples at T0+10
\* and T0+70 the result is lap 1 for the first sample and lap 2 for the second.
C11_AsofLapAssignment ==
    (mpc = "merged" /\ SingleDriverLaps) =>
        /\ \A i \in DOMAIN merged_df :
             LET row == merged_df[i] IN
             (\E k \in DOMAIN laps_df : laps_df[k].date_start <= row.date) =>
                 \E k \in DOMAIN laps_df :
                     /\ laps_df[k].date_start <= row.date
                     /\ \A m \in DOMAIN laps_df :
                          laps_df[m].date_start <= row.date
                              => laps_df[m].date_start <= laps_df[k].date_start
                     /\ row.lap_number = laps_df[k].lap_number
        /\ (/\ Len(laps_df) = 2 /\ Len(car_df) = 2
            /\ laps_df[1].lap_number = 1 /\ laps_df[1].date_start = 0
            /\ laps_df[2].lap_number = 2 /\ laps_df[2].date_start = 60
            /\ car_df[1].date = 10 /\ car_df[2].date = 70)
              => (merged_df[1].lap_number = 1 /\ merged_df[2].lap_number = 2)

\* The scenario: laps 1 at T0 and 2 at T0+60 of driver 1, samples at T0+10
\* and T0+70, merged.
C11_ScenarioWitness ==
    /\ mpc = "merged"
    /\ Len(laps_df) = 2 /\ Len(car_df) = 2
    /\ laps_df[1].driver_number = 1 /\ laps_df[2].driver_number = 1
    /\ laps_df[1].lap_number = 1 /\ laps_df[1].date_start = 0
    /\ laps_df[2].lap_number = 2 /\ laps_df[2].date_start = 60
    /\ car_df[1].date = 10 /\ car_df[2].date = 70
    /\ merged_df[1].lap_number = 1 /\ merged_df[2].lap_number = 2

\* C12: when the sessions fetch returns an empty list,
\* get_latest_session_key gives the no-session signal without raising and
\* main stops: process_session is not entered, no further fetch is issued
\* and no state document or artifact is written.
C12_NoSessionStops ==
    sessions = "empty" =>
        /\ ipc = "no_session"
        /\ fetchCalls = 0
        /\ \A c \in CallIds : pc[c] = "idle"
        /\ \A d \in Drivers : task[d] = "none"
        /\ ~lapsDf
        /\ mem = disk
        /\ ~diskChanged
        /\ ~wrote

\* A second run that found no session, over the state document and the
\* artifacts a first run left.
C12_NoSessionWitness ==
    /\ sessions = "empty"
    /\ ipc = "no_session"
    /\ runs > 1
    /\ disk.laps /\ lapsFile

\* p <= q for fractions with positive denominators
FracLeq(p, q) == p.num * q.den <= q.num * p.den

\* The ages, from 1 on, at which the (circuit, compound) group of output row
\* r counts a failure, marked being the laps with their is_failure column.
FailureAges(marked, r) ==
    {marked[i].tire_age : i \in {k \in DOMAIN marked :
                                   /\ marked[k].circuit_id = r.circuit_id
                                   /\ marked[k].compound = r.compound
                                   /\ marked[k].is_failure = 1
                                   /\ marked[k].tire_age >= 1}}

\* C13: in every (circuit, compound) group of the output of
\* calculate_tire_life_probability, prob_survival is non-increasing as
\* tire_age increases, stays within [0, 1], and is 1.0 at every age before
\* the first age at which a failure is counted.
C13_SurvivalMonotone ==
    fpc = "life_done" =>
        LET marked == WithFailures(stint_laps) IN
        \A i \in DOMAIN survival_data :
            LET r == survival_data[i] IN
            /\ r.prob_survival.den > 0
            /\ 0 <= r.prob_survival.num
            /\ r.prob_survival.num <= r.prob_survival.den
            /\ \A j \in DOMAIN survival_data :
                 (/\ survival_data[j].circuit_id = r.circuit_id
                  /\ survival_data[j].compound = r.compound
                  /\ r.tire_age < survival_data[j].tire_age)
                    => FracLeq(survival_data[j].prob_survival, r.prob_survival)
            /\ (\A a \in FailureAges(marked, r) : r.tire_age < a)
                 => r.prob_survival.num = r.prob_survival.den

\* A curve that is 1.0 at age 1 and strictly between 0 and 1 at age 2, beside
\* another group.
C13_CurveWitness ==
    /\ fpc = "life_done"
    /\ \E i, j, k \in DOMAIN survival_data :
         /\ survival_data[i].circuit_id = survival_data[j].circuit_id
         /\ survival_data[i].compound = survival_data[j].compound
         /\ survival_data[i].tire_age = 1
         /\ survival_data[i].prob_survival.num = survival_data[i].prob_survival.den
         /\ survival_data[j].tire_age = 2
         /\ 0 < survival_data[j].prob_survival.num
         /\ survival_data[j].prob_survival.num < survival_data[j].prob_survival.den
         /\ survival_data[k].compound # survival_data[i].compound

\* C14: calculate_tire_age_adjusted sets, for every row, laps_since_pit =
\* lap_number minus the minimum lap_number of the row's stint, and
\* tire_age_adj = laps_since_pit x (1 + 0.05 x (track_temperature - 30)), the
\* temperature being the row's column value (the default 30 of track_temp
\* when the table has no such column); laps_since_pit = 3 at
\* track_temperature = 40 yields 4.5 (90 twentieths).
C14_TireAgeAdjusted ==
    (/\ fpc = "age_done"
     /\ HasColumn(given_df, "lap_number")
     /\ HasColumn(given_df, "stnt") \/ HasColumn(given_df, "is_pit_out_lap")) =>
        /\ Len(aged_df) = Len(given_df)
        /\ \A i \in DOMAIN aged_df :
             LET r == aged_df[i]
                 stint == {j \in DOMAIN aged_df : aged_df[j].stnt = r.stnt}
                 temp == IF HasColumn(given_df, "track_temperature")
                         THEN r.track_temperature ELSE 30
             IN /\ r.lap_number = given_df[i].lap_number
                /\ \A j \in stint : aged_df[j].lap_number >= r.lap_number - r.laps_since_pit
                /\ \E j \in stint : aged_df[j].lap_number = r.lap_number - r.laps_since_pit
                /\ 20 * r.tire_age_adj = r.laps_since_pit * (400 + 20 * (temp - 30))
                /\ (r.laps_since_pit = 3 /\ temp = 40) => r.tire_age_adj = 90

\* A row three laps into a stint inferred from is_pit_out_lap, at 40 degrees.
C14_ExampleWitness ==
    /\ fpc = "age_done"
    /\ age_df = aged_df
    /\ \E i \in DOMAIN aged_df :
         /\ given_df[i].stnt = NoColumn
         /\ aged_df[i].stnt = 1
         /\ aged_df[i].laps_since_pit = 3
         /\ aged_df[i].track_temperature = 40
         /\ aged_df[i].tire_age_adj = 90

\* process_session is past its laps step without a laps table: the laps
\* fetch of this run returned an empty result.
LapsCameEmpty ==
    /\ ipc \in {"weather_check", "weather_fetch", "weather_save",
                "drivers_check", "gather", "drivers_save", "done"}
    /\ sessions = "rows"
    /\ ~lapsDf

\* C15: no car_data request is issued before a non-empty laps table of the
\* session is persisted (fetched in this run or loaded from storage); when
\* the laps fetch returned an empty result no car_data request is issued at
\* all, while the weather step still runs (its fetch is made unless weather
\* is already marked done and stored).
C15_LapsBeforeTelemetry ==
    /\ \A d \in Drivers :
         (pc[d] # "idle" \/ task[d] # "none") => (lapsDf /\ lapsFile)
    /\ LapsCameEmpty =>
         /\ \A d \in Drivers : pc[d] = "idle" /\ task[d] = "none"
         /\ ipc \notin {"gather", "drivers_save"}
         /\ ipc \in {"drivers_check", "done"} =>
              (fetchCalls = 2 \/ (mem.weather /\ weatherFile))

\* A run whose laps fetch came back empty and whose weather fetch was made
\* and stored.
C15_EmptyLapsWitness ==
    /\ LapsCameEmpty
    /\ ipc = "done"
    /\ fetchCalls = 2
    /\ weatherFile /\ disk.weather /\ ~disk.laps
    /\ carFiles = {}

\* C16: in one invocation of process_session the driver set of the persisted
\* state is written at most once, only after every dispatched driver task
\* has resolved or failed, whatever order the tasks complete in; no driver
\* task writes the state document itself.
C16_DriverSetWrittenOnce ==
    /\ [](driverWrites <= 1)
    /\ [][/\ (disk'.drivers # disk.drivers /\ ipc' # "crashed") =>
               /\ ipc = "drivers_save"
               /\ driverWrites = 0
               /\ \A d \in Drivers : task[d] # "running" /\ pc[d] = "idle"
          /\ (\E d \in Drivers : task[d] = "running" /\ task'[d] # "running"
                                  /\ ipc' # "crashed")
               => disk' = disk]_vars

\* The driver set was written after a batch in which one task returned its
\* driver and another returned None.
C16_BatchWrittenWitness ==
    /\ ipc = "done"
    /\ driverWrites = 1
    /\ \E d, o \in Drivers : task[d] = "returned" /\ task[o] = "none_result"

\* The number of times x occurs in seq.
Count(seq, x) == Cardinality({i \in DOMAIN seq : seq[i] = x})

\* C17: a driver whose telemetry fetch returns an empty result gets no
\* artifact file and is not added to the driver set, so the next invocation
\* of process_session that dispatches driver tasks issues the fetch for that
\* driver again.
C17_EmptyDriverRetried ==
    /\ [][\A d \in Drivers :
            /\ (task[d] = "running" /\ task'[d] = "none_result") =>
                  (carFiles' = carFiles /\ mem' = mem /\ disk' = disk)
            /\ (task[d] = "none_result" /\ ipc' # "crashed" /\ runs' = runs) =>
                  /\ Count(mem'.drivers, PyInt(d)) = Count(mem.drivers, PyInt(d))
                  /\ Count(disk'.drivers, PyInt(d)) = Count(disk.drivers, PyInt(d))]_vars
    /\ [](ipc = "gather" =>
            \A d \in Drivers : PyInt(d) \notin Elems(mem.drivers) => task[d] # "none")

\* In a later run the fetch of a driver is in flight whose earlier fetch
\* came back empty: a batch was saved without it and it has no artifact.
C17_RefetchWitness ==
    /\ runs > 1
    /\ ipc = "gather"
    /\ \E d, o \in Drivers :
         /\ d \notin carFiles
         /\ PyInt(d) \notin Elems(disk.drivers)
         /\ PyInt(o) \in Elems(disk.drivers)
         /\ task[d] = "running" /\ pc[d] = "inflight"

\* C18: on each invocation of process_session and for each artifact (laps,
\* weather, each driver's telemetry), the fetch is skipped if and only if
\* the persisted state marks the artifact complete and its file exists.
C18_SkipIffMarkedAndStored ==
    [][/\ (ipc = "laps_check" /\ ipc' # "crashed") =>
            ((ipc' = "weather_check") <=> (mem.laps /\ lapsFile))
       /\ (ipc = "weather_check" /\ ipc' # "crashed") =>
            ((ipc' = "drivers_check") <=> (mem.weather /\ weatherFile))
       /\ (ipc = "drivers_check" /\ ipc' \in {"gather", "done"} /\ lapsDf) =>
            \A d \in Drivers :
                (task'[d] # "running")
                    <=> (PyInt(d) \in Elems(mem.drivers) /\ d \in carFiles)]_vars

\* C19: every persisted state of a session respects the order NOT_STARTED,
\* LAPS_DONE, WEATHER_DONE, drivers fetched: weather is never marked done
\* while laps is not, and the driver set is non-empty only when both laps
\* and weather are marked done.
C19_StateOrder ==
    /\ disk.weather => disk.laps
    /\ disk.drivers # <<>> => (disk.laps /\ disk.weather)

\* C20 as stated: the delays before attempts 2 to 5 of one logical request
\* are 2, 4, 8, 10 (starting at 2, doubling, capped at 10), each depending
\* only on the request's own attempt count.
C20_BackoffDoubling ==
    \A c \in CallIds :
        pc[c] = "backoff" => delay[c] = <<2, 4, 8, 10>>[attempt[c]]

\* C20 amended: the delay after the k-th failed attempt of one logical
\* request is max(2, min(2^(k-1), 10)), so the delays before attempts 2 to 5
\* are 2, 2, 4, 8: never below 2, never above 10, doubling from the second
\* retry on; each depends only on the request's own attempt count, never on
\* the retries of other concurrent requests.
C20_BackoffSchedule ==
    \A c \in CallIds :
        pc[c] = "backoff" =>
            /\ attempt[c] \in 1..4
            /\ delay[c] = <<2, 2, 4, 8>>[attempt[c]]
            /\ delay[c] >= 2 /\ delay[c] <= 10

\* Two concurrent requests sleep at different points of their schedules.
C20_ConcurrentBackoffWitness ==
    \E c, o \in CallIds :
        /\ pc[c] = "backoff" /\ attempt[c] = 4 /\ delay[c] = 8
        /\ pc[o] = "backoff" /\ attempt[o] = 2 /\ delay[o] = 2

\* C21: when every issued request eventually receives a response and every
\* enabled step is eventually taken, every fetch call eventually returns a
\* result or an error after at most 5 attempts, main and process_session
\* eventually terminate, and no call waits at the gate for ever.
C21_Termination ==
    /\ [](\A c \in CallIds : attempt[c] <= 5 /\ issued[c] <= 5)
    /\ <>[](\A c \in CallIds : pc[c] \notin {"wait", "inflight", "backoff"})
    /\ <>[](ipc \in {"harness", "done", "exited", "no_session"})

\* With a gate of one slot, two concurrent calls have both ended, one of
\* them after its fifth attempt.
C21_AllEndedWitness ==
    /\ ipc = "harness"
    /\ limit = 1
    /\ \A c \in HarnessCalls : pc[c] = "done"
    /\ \E c \in HarnessCalls : issued[c] = 5 /\ outcome[c].exc = "RetryError"

\* C22: a fetch call holds a gate slot only while one of its HTTP attempts
\* is in flight: the slot is released on every exit of an attempt before any
\* backoff wait, so the free slots are always C minus the attempts in
\* flight, and all C slots are free whenever no attempt is in flight.
C22_SlotOnlyInFlight ==
    /\ sem = limit - Cardinality(InFlight)
    /\ InFlight = {} => sem = limit

\* With a gate of one slot, a call has the slot while another call sleeps
\* between two attempts and a third outcome, a failure, is already in.
C22_BackoffFreesGateWitness ==
    /\ limit = 1
    /\ \E c, o \in CallIds :
         /\ pc[c] = "backoff"
         /\ pc[o] = "inflight" /\ attempt[o] > 1

\* The sessions the caller asked for: those of the wanted year that match
\* the wanted label.
Wanted ==
    {i \in DOMAIN remote_sessions :
        /\ remote_sessions[i].year = want_year
        /\ want_type = "None" \/ remote_sessions[i].session_name = want_type}

\* C23: the session locator, asked for a year and optionally a session-type
\* label, returns the session_key of a session with the maximum date_start
\* among the sessions of that year that match the label.
C23_LatestOfRequested ==
    (lpc = "located" /\ Wanted # {}) =>
        \E i \in Wanted :
            /\ located = remote_sessions[i].session_key
            /\ \A j \in Wanted :
                 remote_sessions[j].date_start <= remote_sessions[i].date_start

\* C24: every output row of merge_data that has an earlier-or-equal weather
\* sample carries the temperatures, the humidity and the rainfall of a
\* weather sample with the greatest timestamp <= the row's timestamp,
\* whatever the row's driver and whatever the drivers of the laps table.
C24_WeatherAsof ==
    mpc = "merged" =>
        \A i \in DOMAIN merged_df :
            LET earlier == {k \in DOMAIN weather_df :
                               weather_df[k].date <= merged_df[i].date}
            IN earlier # {} =>
                 \E k \in earlier :
                    /\ \A o \in earlier : weather_df[o].date <= weather_df[k].date
                    /\ merged_df[i].air_temperature = weather_df[k].air_temperature
                    /\ merged_df[i].track_temperature = weather_df[k].track_temperature
                    /\ merged_df[i].humidity = weather_df[k].humidity
                    /\ merged_df[i].rainfall = weather_df[k].rainfall

\* The weather table lists a wet sample at T0+60 before a dry one at T0;
\* samples of driver 2 at T0+10 and T0+70 carry the dry and the wet values.
C24_TwoSamplesWitness ==
    /\ mpc = "merged"
    /\ weather_df = <<WeatherRow(60, <<27, 40, 60, 1>>), WeatherRow(0, <<25, 30, 50, 0>>)>>
    /\ Len(merged_df) = 2
    /\ merged_df[1].driver_number = 2
    /\ merged_df[1].date = 10 /\ merged_df[1].rainfall = 0 /\ merged_df[1].humidity = 50
    /\ merged_df[2].date = 70 /\ merged_df[2].rainfall = 1 /\ merged_df[2].humidity = 60

\* The laps table is that of the car table's driver, with laps starting in
\* the order of their numbers.
OwnOrderedLaps ==
    /\ laps_df # <<>>
    /\ \A k \in DOMAIN laps_df, i \in DOMAIN car_df :
         laps_df[k].driver_number = car_df[i].driver_number
    /\ \A k, o \in DOMAIN laps_df :
         laps_df[k].lap_number < laps_df[o].lap_number
            => laps_df[k].date_start < laps_df[o].date_start

\* C26: on the fused table, where one lap contributes several sample rows,
\* the stint identifier computed for a row equals the number of pit-out
\* laps with lap number up to and including the row's lap, so all rows of
\* one lap share the same stint identifier.
C26_StintPerLap ==
    (mpc = "featured" /\ OwnOrderedLaps) =>
        \A i \in DOMAIN features_df :
            HasLap(features_df[i]) =>
                /\ features_df[i].stnt =
                     Cardinality({k \in DOMAIN laps_df :
                                    /\ laps_df[k].is_pit_out_lap = 1
                                    /\ laps_df[k].lap_number
                                          <= features_df[i].lap_number})
                /\ \A j \in DOMAIN features_df :
                     features_df[j].lap_number = features_df[i].lap_number
                        => features_df[j].stnt = features_df[i].stnt

\* C25: after interpolate_missing every originally missing gear value equals
\* the nearest preceding non-missing gear value, gear values missing before
\* the first observed gear stay missing, observed gears stay as they are,
\* and no gear value occurs in the output that did not occur in the input.
C25_GearForwardFilled ==
    (fpc = "fill_done" /\ given_df # <<>> /\ HasColumn(given_df, "gear")) =>
        /\ Len(filled_df) = Len(given_df)
        /\ \A i \in DOMAIN filled_df :
             LET before == {j \in 1..(i - 1) : given_df[j].gear # NaN}
             IN /\ given_df[i].gear # NaN =>
                     filled_df[i].gear = given_df[i].gear
                /\ (given_df[i].gear = NaN /\ before = {}) =>
                     filled_df[i].gear = NaN
                /\ (given_df[i].gear = NaN /\ before # {}) =>
                     \E j \in before :
                        /\ \A k \in before : k <= j
                        /\ filled_df[i].gear = given_df[j].gear
                /\ filled_df[i].gear # NaN =>
                     \E j \in DOMAIN given_df :
                        given_df[j].gear = filled_df[i].gear

\* A gap between gears 2 and 4 is filled with 2 while the same gap between
\* the speeds 0 and 60 is filled with 30; a leading gap stays.
C25_GapWitness ==
    /\ fpc = "fill_done"
    /\ given_df = <<TelemetryRow(NaN, NaN), TelemetryRow(0, 2),
                    TelemetryRow(NaN, NaN), TelemetryRow(60, 4)>>
    /\ filled_df = <<TelemetryRow(0, NaN), TelemetryRow(0, 2),
                     TelemetryRow(30, 2), TelemetryRow(60, 4)>>
    /\ telemetry_df = filled_df

\* C27: calculate_interval_delta adds the interval_delta column (interval
\* minus its rolling mean over the last 240 samples) exactly when the
\* 'interval' column is in the input table; without it no column is added.
C27_DeltaIffInterval ==
    (fpc = "delta_done" /\ given_df # <<>>) =>
        /\ Len(delta_df) = Len(given_df)
        /\ HasColumn(delta_df, "interval_delta") <=> HasColumn(given_df, "interval")
        /\ HasColumn(given_df, "interval") =>
             \A i \in DOMAIN delta_df :
                LET lo == IF i > 240 THEN i - 239 ELSE 1
                    total == SumSeq([j \in DOMAIN given_df |-> given_df[j].interval], lo, i)
                IN (i - lo + 1) * delta_df[i].interval_delta
                      = (i - lo + 1) * given_df[i].interval - total

\* C28: calculate_tire_life_probability flags a lap as a failure exactly
\* when its lap_duration exceeds by more than 1.5 the mean of the up to 3
\* immediately preceding laps of the same (driver, stint), the lap itself
\* excluded; the first lap of a (driver, stint) is never flagged.
C28_FailureFlag ==
    fpc = "life_done" =>
        /\ Len(flagged_laps) = Len(stint_laps)
        /\ \A i \in DOMAIN stint_laps :
             LET r == stint_laps[i]
                 before == {j \in DOMAIN stint_laps :
                              /\ stint_laps[j].driver_id = r.driver_id
                              /\ stint_laps[j].stint = r.stint
                              /\ stint_laps[j].lap_number < r.lap_number}
                 base == {j \in before :
                            Cardinality({k \in before :
                                stint_laps[k].lap_number > stint_laps[j].lap_number}) < 3}
                 total == SumSeq([j \in DOMAIN stint_laps |->
                                    IF j \in base THEN stint_laps[j].lap_duration ELSE 0],
                                 1, Len(stint_laps))
                 cliff == /\ base # {}
                          /\ 2 * (r.lap_duration * Cardinality(base) - total)
                                > 3 * Cardinality(base)
             IN \E k \in DOMAIN flagged_laps :
                  /\ flagged_laps[k].driver_id = r.driver_id
                  /\ flagged_laps[k].stint = r.stint
                  /\ flagged_laps[k].lap_number = r.lap_number
                  /\ flagged_laps[k].lap_duration = r.lap_duration
                  /\ flagged_laps[k].is_failure = (IF cliff THEN 1 ELSE 0)
                  /\ before = {} => flagged_laps[k].is_failure = 0

\* A stint of laps 92, 90, 90, 90, 92: the fifth lap is 2 above the mean of
\* laps 2 to 4 and is flagged, though only 1.5 above the mean of all four.
C28_WindowWitness ==
    /\ fpc = "life_done"
    /\ Len(flagged_laps) = 5
    /\ \A i \in 1..5 : flagged_laps[i].lap_duration = (IF i \in {1, 5} THEN 92 ELSE 90)
    /\ \A i \in 1..5 : flagged_laps[i].is_failure = (IF i = 5 THEN 1 ELSE 0)

\* The (circuit, compound) groups of the laps table
LapGroups == {<<stint_laps[i].circuit_id, stint_laps[i].compound>> : i \in DOMAIN stint_laps}

\* The output rows of group g at age t
CurveRows(g, t) ==
    {k \in DOMAIN survival_data :
        /\ survival_data[k].circuit_id = g[1]
        /\ survival_data[k].compound = g[2]
        /\ survival_data[k].tire_age = t}

\* C29: for every (circuit, compound) group the output of
\* calculate_tire_life_probability has exactly one row for every integer
\* tire_age from 1 to the group's maximum age and no other row; at an age
\* with no laps the survival equals that of the preceding age, and at any
\* other age T survival(T) = survival(T-1) x (1 - failures(T) / at_risk(T))
\* with survival(0) = 1.
C29_CurveRows ==
    fpc = "life_done" =>
        /\ \A k \in DOMAIN survival_data :
             <<survival_data[k].circuit_id, survival_data[k].compound>> \in LapGroups
        /\ \A g \in LapGroups :
             LET laps == {i \in DOMAIN flagged_laps :
                            /\ flagged_laps[i].circuit_id = g[1]
                            /\ flagged_laps[i].compound = g[2]}
                 max_age == SetMax({flagged_laps[i].tire_age : i \in laps})
             IN /\ \A k \in DOMAIN survival_data :
                     (/\ survival_data[k].circuit_id = g[1]
                      /\ survival_data[k].compound = g[2])
                        => survival_data[k].tire_age \in 1..max_age
                /\ \A t \in 1..max_age :
                     /\ Cardinality(CurveRows(g, t)) = 1
                     /\ LET p == survival_data[CHOOSE k \in CurveRows(g, t) : TRUE].prob_survival
                            q == IF t = 1 THEN [num |-> 1, den |-> 1]
                                 ELSE survival_data[CHOOSE k \in CurveRows(g, t - 1) : TRUE].prob_survival
                            at_risk == Cardinality({i \in laps : flagged_laps[i].tire_age = t})
                            failures == Cardinality({i \in laps :
                                                       /\ flagged_laps[i].tire_age = t
                                                       /\ flagged_laps[i].is_failure = 1})
                        IN IF at_risk = 0
                           THEN p.num * q.den = q.num * p.den
                           ELSE p.num * q.den * at_risk
                                  = q.num * (at_risk - failures) * p.den

\* A group with laps at ages 1 and 3 only, one of the two laps at age 3 a
\* failure: its curve is 1 at age 1, still 1 at age 2, 1/2 at age 3.
C29_GapAgeWitness ==
    /\ fpc = "life_done"
    /\ \E g \in LapGroups :
         /\ \A i \in DOMAIN flagged_laps :
              (flagged_laps[i].circuit_id = g[1] /\ flagged_laps[i].compound = g[2])
                 => flagged_laps[i].tire_age \in {1, 3}
         /\ \E a, b, c \in DOMAIN survival_data :
              /\ a \in CurveRows(g, 1) /\ b \in CurveRows(g, 2) /\ c \in CurveRows(g, 3)
              /\ survival_data[a].prob_survival.num = survival_data[a].prob_survival.den
              /\ survival_data[b].prob_survival.num = survival_data[b].prob_survival.den
              /\ 2 * survival_data[c].prob_survival.num = survival_data[c].prob_survival.den

====
